---- MODULE Spec2Model ----
(***************************************************************************)
(* Model of the ANVISA/CMED pipeline (src/transform.py and the modules it  *)
(* uses).  Text values are sequences of one-character strings, so that     *)
(* digit stripping, slicing, trimming and glob matching are computed the   *)
(* way the code computes them.  A pandas DataFrame is a record             *)
(* [cols |-> sequence of labels, rows |-> sequence of label -> cell].      *)
(* pd.merge is modelled as pandas >= 2.2 documents and implements it for   *)
(* how='inner', sort=False: left key order, right order within a left row. *)
(***************************************************************************)
EXTENDS Integers, Sequences, FiniteSets, TLC

VARIABLES
    dataDir,          \* config.DATA_DIR: file name -> [mtime, cols, rows]
    outputFile,       \* PROCESSED_DATA_DIR/UNIFIED_FILENAME: a table or NoTable
    pc,               \* "idle" before transform.run, "done" after it ended
    trace,            \* the steps transform.run executed, in order
    cmed_path,        \* result of find_latest_cmed_file (NoPath for None)
    df_anvisa,        \* locals of transform.run (NoTable while unassigned)
    df_cmed,
    df_anvisa_clean,
    df_cmed_clean,
    df_unified,
    df_final,
    returned,         \* value returned by transform.run (NoTable if none)
    raised,           \* exception that left transform.run (NoError if none)
    ident,            \* one identifier cell: raw value, cleaned once, cleaned twice
    pg,               \* the PostgreSQL database: main table and temp tables
    es,               \* the Elasticsearch cluster: indices and the public alias
    pl,               \* the last run of main(): clock, stages passed, extraction result
    ld                \* the last call of a loader: function, table, time, exception

vars == <<dataDir, outputFile, pc, trace, cmed_path, df_anvisa, df_cmed,
          df_anvisa_clean, df_cmed_clean, df_unified, df_final, returned, raised,
          ident, pg, es, pl, ld>>

(***************************************************************************)
(* Bounds of the model.                                                    *)
(***************************************************************************)
MaxRows == 2

MaxTime == 3

MaxIdLen == 3

MaxLoadRows == 2

MaxClock == 2

(***************************************************************************)
(* Generic helpers.                                                        *)
(***************************************************************************)
Range(s) == {s[i] : i \in DOMAIN s}

RECURSIVE FilterSeq(_, _)
\* [x for x in s if x in keep]
FilterSeq(s, keep) ==
    IF s = <<>> THEN <<>>
    ELSE IF Head(s) \in keep THEN <<Head(s)>> \o FilterSeq(Tail(s), keep)
         ELSE FilterSeq(Tail(s), keep)

RECURSIVE Flatten(_)
Flatten(ss) == IF ss = <<>> THEN <<>> ELSE Head(ss) \o Flatten(Tail(ss))

Min(a, b) == IF a <= b THEN a ELSE b

NaN == <<"NaN">>

NoTable == [none |-> TRUE]

NoPath == <<>>

NoError == [type |-> "None", args |-> <<>>]

Digits == {"0", "1", "2", "3", "4", "5", "6", "7", "8", "9"}

Whitespace == {" "}

(***************************************************************************)
(* Configuration (src/config.py) and the column lists of src/transform.py. *)
(***************************************************************************)
ANVISA_FILENAME ==
    <<"D","A","D","O","S","_","A","B","E","R","T","O","S","_",
      "M","E","D","I","C","A","M","E","N","T","O","S",".","c","s","v">>

xls_pattern == <<"*", ".", "x", "l", "s", "*">>

PREFIX_LEN == 9

anvisa_cols == <<"NUMERO_REGISTRO_PRODUTO", "CLASSE_TERAPEUTICA", "PRINCIPIO_ATIVO">>

cmed_col_rename ==
    [c \in {"LABORATÓRIO", "REGISTRO", "APRESENTAÇÃO",
            "TIPO DE PRODUTO (STATUS DO PRODUTO)", "CÓDIGO GGREM ",
            "REGIME DE PREÇO", "PMC Sem Impostos", "PMC 0 %", "PMC 12 %",
            "PMC 12 %  ALC", "PMC 17 %", "PMC 17 %  ALC", "PMC 17,5 %",
            "PMC 17,5 %  ALC", "PMC 18 %", "PMC 18 %  ALC", "PMC 19 %",
            "PMC 19 %  ALC", "PMC 19,5 %", "PMC 20 %", "PMC 20 %  ALC",
            "PMC 20,5 %", "PMC 20,5 %  ALC", "PMC 21 %", "PMC 21 %  ALC",
            "PMC 22 %", "PMC 22 %  ALC", "PMC 22,5 %", "PMC 22,5 %  ALC",
            "PMC 23 %", "PMC 23 %  ALC", "RESTRIÇÃO HOSPITALAR",
            "LISTA DE CONCESSÃO DE CRÉDITO TRIBUTÁRIO (PIS/COFINS)"} |->
       CASE c = "LABORATÓRIO" -> "LABORATORIO"
         [] c = "REGISTRO" -> "REGISTRO_CMED"
         [] c = "APRESENTAÇÃO" -> "APRESENTACAO"
         [] c = "TIPO DE PRODUTO (STATUS DO PRODUTO)" -> "TIPO_PRODUTO"
         [] c = "CÓDIGO GGREM " -> "CODIGO_GGREM"
         [] c = "REGIME DE PREÇO" -> "REGIME_DE_PRECO"
         [] c = "PMC Sem Impostos" -> "PRECO_MAXIMO_AO_CONSUMIDOR_SEM_IMPOSTOS"
         [] c = "PMC 0 %" -> "PRECO_MAXIMO_AO_CONSUMIDOR_PERCENTUAL_SEM_ICMS"
         [] c = "PMC 12 %" -> "PRECO_MAXIMO_AO_CONSUMIDOR_PERCENTUAL_12"
         [] c = "PMC 12 %  ALC" -> "PRECO_MAXIMO_AO_CONSUMIDOR_PERCENTUAL_12_AREA_DE_LIVRE_COMERCIO"
         [] c = "PMC 17 %" -> "PRECO_MAXIMO_AO_CONSUMIDOR_PERCENTUAL_17"
         [] c = "PMC 17 %  ALC" -> "PRECO_MAXIMO_AO_CONSUMIDOR_PERCENTUAL_17_AREA_DE_LIVRE_COMERCIO"
         [] c = "PMC 17,5 %" -> "PRECO_MAXIMO_AO_CONSUMIDOR_PERCENTUAL_17_5"
         [] c = "PMC 17,5 %  ALC" -> "PRECO_MAXIMO_AO_CONSUMIDOR_PERCENTUAL_17_5_AREA_DE_LIVRE_COMERCIO"
         [] c = "PMC 18 %" -> "PRECO_MAXIMO_AO_CONSUMIDOR_PERCENTUAL_18"
         [] c = "PMC 18 %  ALC" -> "PRECO_MAXIMO_AO_CONSUMIDOR_PERCENTUAL_18_AREA_DE_LIVRE_COMERCIO"
         [] c = "PMC 19 %" -> "PRECO_MAXIMO_AO_CONSUMIDOR_PERCENTUAL_19"
         [] c = "PMC 19 %  ALC" -> "PRECO_MAXIMO_AO_CONSUMIDOR_PERCENTUAL_19_AREA_DE_LIVRE_COMERCIO"
         [] c = "PMC 19,5 %" -> "PRECO_MAXIMO_AO_CONSUMIDOR_PERCENTUAL_19_5"
         [] c = "PMC 20 %" -> "PRECO_MAXIMO_AO_CONSUMIDOR_PERCENTUAL_20"
         [] c = "PMC 20 %  ALC" -> "PRECO_MAXIMO_AO_CONSUMIDOR_PERCENTUAL_20_AREA_DE_LIVRE_COMERCIO"
         [] c = "PMC 20,5 %" -> "PRECO_MAXIMO_AO_CONSUMIDOR_PERCENTUAL_20_5"
         [] c = "PMC 20,5 %  ALC" -> "PRECO_MAXIMO_AO_CONSUMIDOR_PERCENTUAL_20_5_AREA_DE_LIVRE_COMERCIO"
         [] c = "PMC 21 %" -> "PRECO_MAXIMO_AO_CONSUMIDOR_PERCENTUAL_21"
         [] c = "PMC 21 %  ALC" -> "PRECO_MAXIMO_AO_CONSUMIDOR_PERCENTUAL_21_AREA_DE_LIVRE_COMERCIO"
         [] c = "PMC 22 %" -> "PRECO_MAXIMO_AO_CONSUMIDOR_PERCENTUAL_22"
         [] c = "PMC 22 %  ALC" -> "PRECO_MAXIMO_AO_CONSUMIDOR_PERCENTUAL_22_AREA_DE_LIVRE_COMERCIO"
         [] c = "PMC 22,5 %" -> "PRECO_MAXIMO_AO_CONSUMIDOR_PERCENTUAL_22_5"
         [] c = "PMC 22,5 %  ALC" -> "PRECO_MAXIMO_AO_CONSUMIDOR_PERCENTUAL_22_5_AREA_DE_LIVRE_COMERCIO"
         [] c = "PMC 23 %" -> "PRECO_MAXIMO_AO_CONSUMIDOR_PERCENTUAL_23"
         [] c = "PMC 23 %  ALC" -> "PRECO_MAXIMO_AO_CONSUMIDOR_PERCENTUAL_23_AREA_DE_LIVRE_COMERCIO"
         [] c = "RESTRIÇÃO HOSPITALAR" -> "RESTRICAO_HOSPITALAR"
         [] c = "LISTA DE CONCESSÃO DE CRÉDITO TRIBUTÁRIO (PIS/COFINS)" ->
                "LISTA_DE_CONCESSAO_DE_CREDITO_TRIBUTARIO_PIS_COFINS"]

cmed_cols ==
    <<"LABORATORIO", "CNPJ", "REGISTRO_CMED", "PRODUTO", "APRESENTACAO",
      "TIPO_PRODUTO", "TARJA", "CODIGO_GGREM", "REGIME_DE_PRECO",
      "PRECO_MAXIMO_AO_CONSUMIDOR_SEM_IMPOSTOS",
      "PRECO_MAXIMO_AO_CONSUMIDOR_PERCENTUAL_SEM_ICMS",
      "PRECO_MAXIMO_AO_CONSUMIDOR_PERCENTUAL_12",
      "PRECO_MAXIMO_AO_CONSUMIDOR_PERCENTUAL_12_AREA_DE_LIVRE_COMERCIO",
      "PRECO_MAXIMO_AO_CONSUMIDOR_PERCENTUAL_17",
      "PRECO_MAXIMO_AO_CONSUMIDOR_PERCENTUAL_17_AREA_DE_LIVRE_COMERCIO",
      "PRECO_MAXIMO_AO_CONSUMIDOR_PERCENTUAL_17_5",
      "PRECO_MAXIMO_AO_CONSUMIDOR_PERCENTUAL_17_5_AREA_DE_LIVRE_COMERCIO",
      "PRECO_MAXIMO_AO_CONSUMIDOR_PERCENTUAL_18",
      "PRECO_MAXIMO_AO_CONSUMIDOR_PERCENTUAL_18_AREA_DE_LIVRE_COMERCIO",
      "PRECO_MAXIMO_AO_CONSUMIDOR_PERCENTUAL_19",
      "PRECO_MAXIMO_AO_CONSUMIDOR_PERCENTUAL_19_AREA_DE_LIVRE_COMERCIO",
      "PRECO_MAXIMO_AO_CONSUMIDOR_PERCENTUAL_19_5",
      "PRECO_MAXIMO_AO_CONSUMIDOR_PERCENTUAL_20",
      "PRECO_MAXIMO_AO_CONSUMIDOR_PERCENTUAL_20_AREA_DE_LIVRE_COMERCIO",
      "PRECO_MAXIMO_AO_CONSUMIDOR_PERCENTUAL_20_5",
      "PRECO_MAXIMO_AO_CONSUMIDOR_PERCENTUAL_20_5_AREA_DE_LIVRE_COMERCIO",
      "PRECO_MAXIMO_AO_CONSUMIDOR_PERCENTUAL_21",
      "PRECO_MAXIMO_AO_CONSUMIDOR_PERCENTUAL_21_AREA_DE_LIVRE_COMERCIO",
      "PRECO_MAXIMO_AO_CONSUMIDOR_PERCENTUAL_22",
      "PRECO_MAXIMO_AO_CONSUMIDOR_PERCENTUAL_22_AREA_DE_LIVRE_COMERCIO",
      "PRECO_MAXIMO_AO_CONSUMIDOR_PERCENTUAL_22_5",
      "PRECO_MAXIMO_AO_CONSUMIDOR_PERCENTUAL_22_5_AREA_DE_LIVRE_COMERCIO",
      "PRECO_MAXIMO_AO_CONSUMIDOR_PERCENTUAL_23",
      "PRECO_MAXIMO_AO_CONSUMIDOR_PERCENTUAL_23_AREA_DE_LIVRE_COMERCIO",
      "RESTRICAO_HOSPITALAR",
      "LISTA_DE_CONCESSAO_DE_CREDITO_TRIBUTARIO_PIS_COFINS">>

final_columns == anvisa_cols \o cmed_cols

(***************************************************************************)
(* pandas string operations used by the cleaning functions.                *)
(***************************************************************************)
\* Series.astype(str): a missing value becomes the text "nan".
astype_str(v) == IF v = NaN THEN <<"n", "a", "n">> ELSE v

RECURSIVE KeepDigits(_)
KeepDigits(s) ==
    IF s = <<>> THEN <<>>
    ELSE IF Head(s) \in Digits THEN <<Head(s)>> \o KeepDigits(Tail(s))
         ELSE KeepDigits(Tail(s))

\* A replacement that removes nothing.
str_replace_nothing(v) == v

\* Series.str.replace(r'\D', '', regex=True): every non-digit is removed.
str_replace_nondigits(v) == IF v = NaN THEN NaN ELSE KeepDigits(v)

\* Series.str.slice(0, n)
str_slice(v, n) == IF v = NaN THEN NaN ELSE SubSeq(v, 1, Min(n, Len(v)))

RECURSIVE LStrip(_)
LStrip(s) == IF s # <<>> /\ Head(s) \in Whitespace THEN LStrip(Tail(s)) ELSE s

RECURSIVE RStrip(_)
RStrip(s) ==
    IF s # <<>> /\ s[Len(s)] \in Whitespace THEN RStrip(SubSeq(s, 1, Len(s) - 1)) ELSE s

\* Series.str.strip(): a missing value stays missing.
str_strip(v) == IF v = NaN THEN NaN ELSE RStrip(LStrip(v))

(***************************************************************************)
(* DataFrame operations.                                                   *)
(***************************************************************************)
Table(cols, rows) == [cols |-> cols, rows |-> rows]

\* df[cols].copy()
SelectColumns(df, cols) ==
    Table(cols, [i \in DOMAIN df.rows |-> [c \in Range(cols) |-> df.rows[i][c]]])

\* One cell through .astype(str).str.replace(r'\D', '', regex=True)
clean_identifier(v) == str_replace_nondigits(astype_str(v))

\* df[col] = df[col].astype(str).str.replace(r'\D', '', regex=True)
CleanIdentifierColumn(df, col) ==
    Table(df.cols,
          [i \in DOMAIN df.rows |->
              [df.rows[i] EXCEPT ![col] = str_replace_nondigits(astype_str(@))]])

\* df[col] = df[col].str.slice(0, n)
SliceColumn(df, col, n) ==
    Table(df.cols, [i \in DOMAIN df.rows |-> [df.rows[i] EXCEPT ![col] = str_slice(@, n)]])

RECURSIVE DropNaRows(_, _)
DropNaRows(rows, col) ==
    IF rows = <<>> THEN <<>>
    ELSE IF Head(rows)[col] = NaN THEN DropNaRows(Tail(rows), col)
         ELSE <<Head(rows)>> \o DropNaRows(Tail(rows), col)

\* df.dropna(subset=[col], inplace=True)
dropna(df, col) == Table(df.cols, DropNaRows(df.rows, col))

\* df[new] = df[src].str.slice(0, n): a column appended at the end.
AddSlicedColumn(df, new, src, n) ==
    Table(Append(df.cols, new),
          [i \in DOMAIN df.rows |->
              [c \in Range(df.cols) \cup {new} |->
                  IF c = new THEN str_slice(df.rows[i][src], n) ELSE df.rows[i][c]]])

\* for col in df.select_dtypes(include=['object']).columns: df[col] = df[col].str.strip()
\* (every column of the model holds text, that is dtype object).
StripColumns(df, except) ==
    Table(df.cols,
          [i \in DOMAIN df.rows |->
              [c \in Range(df.cols) |->
                  IF c \in except THEN df.rows[i][c] ELSE str_strip(df.rows[i][c])]])

\* df.rename(columns=mapping)
rename(df, mapping) ==
    LET new(c) == IF c \in DOMAIN mapping THEN mapping[c] ELSE c
    IN  Table([k \in DOMAIN df.cols |-> new(df.cols[k])],
              [i \in DOMAIN df.rows |->
                  [c \in {new(x) : x \in Range(df.cols)} |->
                      LET old == CHOOSE x \in Range(df.cols) : new(x) = c
                      IN  df.rows[i][old]]])

(***************************************************************************)
(* transform.clean_anvisa_data and transform.clean_cmed_data.              *)
(***************************************************************************)
clean_anvisa_data(df) ==
    LET cols_to_use == FilterSeq(anvisa_cols, Range(df.cols))
        d0 == SelectColumns(df, cols_to_use)
        d1 == IF "NUMERO_REGISTRO_PRODUTO" \in Range(d0.cols)
              THEN SliceColumn(dropna(CleanIdentifierColumn(d0, "NUMERO_REGISTRO_PRODUTO"),
                                      "NUMERO_REGISTRO_PRODUTO"),
                               "NUMERO_REGISTRO_PRODUTO", PREFIX_LEN)
              ELSE d0
    IN  StripColumns(d1, {})

clean_cmed_data(df) ==
    LET renamed == rename(df, cmed_col_rename)
        cols_to_use == FilterSeq(cmed_cols, Range(renamed.cols))
        d0 == SelectColumns(renamed, cols_to_use)
        d1 == IF "REGISTRO_CMED" \in Range(d0.cols)
              THEN AddSlicedColumn(dropna(CleanIdentifierColumn(d0, "REGISTRO_CMED"),
                                          "REGISTRO_CMED"),
                                   "REGISTRO_BASE", "REGISTRO_CMED", PREFIX_LEN)
              ELSE d0
    IN  StripColumns(d1, {"REGISTRO_BASE"})

\* The table passed to clean_anvisa_data, as the caller finds it after the
\* call.  Line 31 rebinds the parameter to df[cols_to_use].copy(); every
\* assignment and the inplace dropna that follow act on that copy.
clean_anvisa_data_inplace(df) == clean_anvisa_data(df)

clean_anvisa_data_arg(df) == df

\* The table passed to clean_cmed_data after the call: df.rename returns a
\* new frame (line 84) and line 125 takes a copy of the selection.
clean_cmed_data_arg(df) == df

(***************************************************************************)
(* transform.merge_datasets: pd.merge(how='inner') on the two key columns. *)
(***************************************************************************)
\* The two tables passed to merge_datasets after the call: pd.merge builds
\* its result without writing to either operand.
merge_datasets_args(anvisa_df, cmed_df) == <<anvisa_df, cmed_df>>

\* The key columns pd.merge cannot find; it raises KeyError for one of them.
MissingMergeKeys(anvisa_df, cmed_df) ==
    {k \in {"NUMERO_REGISTRO_PRODUTO"} : k \notin Range(anvisa_df.cols)}
      \cup {k \in {"REGISTRO_BASE"} : k \notin Range(cmed_df.cols)}

\* One output row: the cells of the left row and of the right row (the two
\* frames share no label, so no _x/_y suffix arises).
JoinRows(l, r) == [c \in DOMAIN l \cup DOMAIN r |-> IF c \in DOMAIN l THEN l[c] ELSE r[c]]

RECURSIVE MatchesOf(_, _)
\* The rows joined to left row l: every right row with an equal key, in right order.
MatchesOf(l, rrows) ==
    IF rrows = <<>> THEN <<>>
    ELSE IF Head(rrows)["REGISTRO_BASE"] = l["NUMERO_REGISTRO_PRODUTO"]
         THEN <<JoinRows(l, Head(rrows))>> \o MatchesOf(l, Tail(rrows))
         ELSE MatchesOf(l, Tail(rrows))

\* how='left': a left row without a match is kept, its right cells missing.
MatchesOrNaN(l, rrows, rcols) ==
    IF MatchesOf(l, rrows) = <<>>
    THEN <<[c \in DOMAIN l \cup Range(rcols) |-> IF c \in DOMAIN l THEN l[c] ELSE NaN]>>
    ELSE MatchesOf(l, rrows)

merge_datasets_left(anvisa_df, cmed_df) ==
    Table(anvisa_df.cols \o cmed_df.cols,
          Flatten([i \in DOMAIN anvisa_df.rows |->
                      MatchesOrNaN(anvisa_df.rows[i], cmed_df.rows, cmed_df.cols)]))

RECURSIVE DropDuplicateKeys(_, _)
\* cmed_df.drop_duplicates(subset=['REGISTRO_BASE'], keep='first')
DropDuplicateKeys(rrows, seen) ==
    IF rrows = <<>> THEN <<>>
    ELSE IF Head(rrows)["REGISTRO_BASE"] \in seen THEN DropDuplicateKeys(Tail(rrows), seen)
         ELSE <<Head(rrows)>>
                \o DropDuplicateKeys(Tail(rrows), seen \cup {Head(rrows)["REGISTRO_BASE"]})

merge_datasets_dedup(anvisa_df, cmed_df) ==
    Table(anvisa_df.cols \o cmed_df.cols,
          Flatten([i \in DOMAIN anvisa_df.rows |->
                      MatchesOf(anvisa_df.rows[i], DropDuplicateKeys(cmed_df.rows, {}))]))

RECURSIVE MatchedBy(_, _)
\* The rows joined to right row r: every left row with an equal key, in left order.
MatchedBy(lrows, r) ==
    IF lrows = <<>> THEN <<>>
    ELSE IF Head(lrows)["NUMERO_REGISTRO_PRODUTO"] = r["REGISTRO_BASE"]
         THEN <<JoinRows(Head(lrows), r)>> \o MatchedBy(Tail(lrows), r)
         ELSE MatchedBy(Tail(lrows), r)

\* The join in the order of the right keys.
merge_datasets_right_order(anvisa_df, cmed_df) ==
    Table(anvisa_df.cols \o cmed_df.cols,
          Flatten([j \in DOMAIN cmed_df.rows |-> MatchedBy(anvisa_df.rows, cmed_df.rows[j])]))

merge_datasets(anvisa_df, cmed_df) ==
    Table(anvisa_df.cols \o cmed_df.cols,
          Flatten([i \in DOMAIN anvisa_df.rows |-> MatchesOf(anvisa_df.rows[i], cmed_df.rows)]))

(***************************************************************************)
(* Output assembly of transform.run (lines 229-231).                       *)
(***************************************************************************)
all_columns(df) == df.cols

final_columns_exist(df) == FilterSeq(final_columns, Range(df.cols))

SelectFinal(df) == SelectColumns(df, final_columns_exist(df))


(***************************************************************************)
(* The raw-data directory and transform.find_latest_cmed_file.             *)
(***************************************************************************)
RECURSIVE fnmatch(_, _)
\* fnmatch.fnmatch(name, pat) for patterns made of literal characters and '*'.
fnmatch(name, pat) ==
    IF pat = <<>> THEN name = <<>>
    ELSE IF Head(pat) = "*"
         THEN \/ fnmatch(name, Tail(pat))
              \/ name # <<>> /\ fnmatch(Tail(name), pat)
         ELSE name # <<>> /\ Head(name) = Head(pat) /\ fnmatch(Tail(name), Tail(pat))

\* glob.glob(os.path.join(DATA_DIR, pat)): the names of the directory that
\* match; a name starting with a dot is hidden from a pattern that does not.
glob(dir, pat) ==
    {n \in DOMAIN dir : fnmatch(n, pat) /\ (Head(n) = "." => Head(pat) = ".")}

getmtime(dir, n) == dir[n].mtime

RECURSIVE PyMinByMtime(_, _)
PyMinByMtime(dir, files) ==
    IF Len(files) = 1 THEN files[1]
    ELSE LET best == PyMinByMtime(dir, SubSeq(files, 1, Len(files) - 1))
             last == files[Len(files)]
         IN  IF dir[last].mtime < dir[best].mtime THEN last ELSE best

RECURSIVE PyMaxByMtime(_, _)
\* max(files, key=os.path.getmtime): the first element with the largest key.
PyMaxByMtime(dir, files) ==
    IF Len(files) = 1 THEN files[1]
    ELSE LET best == PyMaxByMtime(dir, SubSeq(files, 1, Len(files) - 1))
             last == files[Len(files)]
         IN  IF getmtime(dir, last) > getmtime(dir, best) THEN last ELSE best

\* Every order in which glob.glob may list the set of names S.
Listings(S) ==
    {f \in [1..Cardinality(S) -> S] : \A i, j \in 1..Cardinality(S) : i # j => f[i] # f[j]}

\* find_latest_cmed_file for one listing order of the directory.
find_latest_cmed_file(dir, files) ==
    IF files = <<>> THEN NoPath ELSE PyMaxByMtime(dir, files)

exists(dir, n) == n \in DOMAIN dir

\* pd.read_csv / pd.read_excel of a file of the directory.
read_table(dir, n) == Table(dir[n].cols, dir[n].rows)

\* A file whose download was cut: the bytes written so far.
IsTruncated(f) == "truncated" \in DOMAIN f


(***************************************************************************)
(* transform.run, as one function of the directory it finds.  `files` is   *)
(* the order in which glob lists the matching names and `pick` the key     *)
(* column pd.merge reports when both are missing; both are chosen by the   *)
(* libraries, not by the program.                                          *)
(***************************************************************************)
FileNotFoundError == [type |-> "FileNotFoundError", args |-> <<"Arquivos brutos não encontrados.">>]

\* pd.read_csv of a path that does not exist; pd.read_excel(None).
ReadCsvError(path) == [type |-> "FileNotFoundError", args |-> <<path>>]

ReadExcelError(path) == [type |-> "ValueError", args |-> <<path>>]

KeyError(k) == [type |-> "KeyError", args |-> <<k>>]

\* pd.read_csv of a file without a byte: pandas.errors.EmptyDataError.
EmptyDataError == [type |-> "EmptyDataError", args |-> <<"No columns to parse from file">>]

\* pd.read_excel of a workbook that is not whole: the container cannot be opened.
BadFileError(path) == [type |-> "BadZipFile", args |-> <<path>>]

SourcesMissing_anvisa_only(dir, anvisa_path, path) == ~exists(dir, anvisa_path)

SourcesMissing_cmed_only(dir, anvisa_path, path) == path = NoPath

\* Line 161: not os.path.exists(anvisa_path) or cmed_path is None
SourcesMissing(dir, anvisa_path, path) == ~exists(dir, anvisa_path) \/ path = NoPath

Aborted(steps, path, a, c, ac, cc, err) ==
    [trace |-> steps, cmed_path |-> path, df_anvisa |-> a, df_cmed |-> c,
     df_anvisa_clean |-> ac, df_cmed_clean |-> cc, df_unified |-> NoTable,
     df_final |-> NoTable, written |-> FALSE, returned |-> NoTable, raised |-> err]

run(dir, files, pick) ==
    LET anvisa_path == ANVISA_FILENAME
        path == find_latest_cmed_file(dir, files)
    IN  IF SourcesMissing(dir, anvisa_path, path)
        THEN Aborted(<<"find_latest_cmed_file", "raise">>, path,
                     NoTable, NoTable, NoTable, NoTable, FileNotFoundError)
        ELSE IF ~exists(dir, anvisa_path)
        THEN Aborted(<<"find_latest_cmed_file", "read_csv", "raise">>, path,
                     NoTable, NoTable, NoTable, NoTable, ReadCsvError(anvisa_path))
        ELSE IF dir[anvisa_path].cols = <<>>
        THEN Aborted(<<"find_latest_cmed_file", "read_csv", "raise">>, path,
                     NoTable, NoTable, NoTable, NoTable, EmptyDataError)
        ELSE IF ~exists(dir, path)
        THEN Aborted(<<"find_latest_cmed_file", "read_csv", "read_excel", "raise">>, path,
                     read_table(dir, anvisa_path), NoTable, NoTable, NoTable, ReadExcelError(path))
        ELSE IF IsTruncated(dir[path])
        THEN Aborted(<<"find_latest_cmed_file", "read_csv", "read_excel", "raise">>, path,
                     read_table(dir, anvisa_path), NoTable, NoTable, NoTable, BadFileError(path))
        ELSE
        LET a  == read_table(dir, anvisa_path)
            c  == read_table(dir, path)
            ac == clean_anvisa_data(a)
            cc == clean_cmed_data(c)
            a1 == clean_anvisa_data_arg(a)
            c1 == clean_cmed_data_arg(c)
            missing == MissingMergeKeys(ac, cc)
        IN  IF missing # {}
            THEN Aborted(<<"find_latest_cmed_file", "read_csv", "read_excel",
                           "clean_anvisa_data", "clean_cmed_data", "merge_datasets", "raise">>,
                         path, a1, c1, ac, cc,
                         KeyError(IF pick \in missing THEN pick ELSE CHOOSE k \in missing : TRUE))
            ELSE
            LET u == merge_datasets(ac, cc)
                after == merge_datasets_args(ac, cc)
                f == SelectFinal(u)
            IN  [trace |-> <<"find_latest_cmed_file", "read_csv", "read_excel",
                             "clean_anvisa_data", "clean_cmed_data", "merge_datasets",
                             "to_csv", "return">>,
                 cmed_path |-> path, df_anvisa |-> a1, df_cmed |-> c1,
                 df_anvisa_clean |-> after[1], df_cmed_clean |-> after[2], df_unified |-> u,
                 df_final |-> f, written |-> TRUE, returned |-> f, raised |-> NoError]

(***************************************************************************)
(* The inputs: what the extraction stage may leave in the directory.       *)
(***************************************************************************)
RegDashed == <<"1","2","3","4","5","6","7","8","9","-","0">>

RegShort == <<"1","2","-","3">>

AnvisaIds == {RegDashed, RegShort, NaN}

CmedPres1 == <<"1","2","3","4","5","6","7","8","9","0","0","0","1">>

CmedPres2 == <<"1","2","3","4","5","6","7","8","9","0","0","0","2">>

CmedShort == <<"1","2","3">>

CmedNoDigits == <<"N","/","A">>

CmedIds == {CmedPres1, CmedPres2, CmedShort, CmedNoDigits}

AnvisaTexts == {<<"A">>, <<" ","B"," ">>}

CmedTexts == {<<"Y"," ">>}

AnvisaHeaders ==
    {<<"NUMERO_REGISTRO_PRODUTO", "EMPRESA_DETENTORA_REGISTRO", "PRINCIPIO_ATIVO">>,
     <<"EMPRESA_DETENTORA_REGISTRO", "PRINCIPIO_ATIVO">>,
     <<"NUMERO_REGISTRO_PRODUTO", "EMPRESA_DETENTORA_REGISTRO">>}

CmedHeaders ==
    {<<"PRODUTO", "REGISTRO", "EAN 1">>,
     <<"PRODUTO", "EAN 1">>,
     <<"REGISTRO", "EAN 1">>}

AnvisaRow(h, id, txt) ==
    [c \in Range(h) |-> CASE c = "NUMERO_REGISTRO_PRODUTO" -> id
                          [] c = "PRINCIPIO_ATIVO" -> txt
                          [] OTHER -> <<"E">>]

CmedRow(h, id, txt) ==
    [c \in Range(h) |-> CASE c = "REGISTRO" -> id
                          [] c = "PRODUTO" -> txt
                          [] OTHER -> <<"7">>]

PriceFileNames == {<<"p","m","c",".","x","l","s">>}

LocateNames ==
    {<<"a",".","x","l","s">>, <<"b",".","x","l","s","x">>, <<".","c",".","x","l","s">>,
     <<"d",".","c","s","v">>, <<"e",".","x","l","s","m">>}

File(t, cols, rows) == [mtime |-> t, cols |-> cols, rows |-> rows]

(***************************************************************************)
(* The state machine.                                                      *)
(***************************************************************************)
\* No identifier cell under treatment.
IdentIdle == [raw |-> <<>>, cleaned |-> <<>>, again |-> <<>>, step |-> 0]

\* Nothing extracted and transform.run not started.
InitTransform ==
    /\ dataDir = <<>>
    /\ outputFile = NoTable
    /\ pc = "idle"
    /\ trace = <<>>
    /\ cmed_path = NoPath
    /\ df_anvisa = NoTable
    /\ df_cmed = NoTable
    /\ df_anvisa_clean = NoTable
    /\ df_cmed_clean = NoTable
    /\ df_unified = NoTable
    /\ df_final = NoTable
    /\ returned = NoTable
    /\ raised = NoError

\* The database before the first load: no main table, no temp table.
PgEmpty == [main |-> NoTable, temps |-> {}]

\* The cluster before the first load: no index, the alias on nothing.
EsEmpty == [indices |-> <<>>, alias |-> {}]

\* main() not run yet.
PipelineIdle ==
    [clock |-> 0, stages |-> <<>>, extract_raised |-> NoError, cmed_filename |-> NoPath,
     skipped |-> FALSE]

\* No loader called yet; the clock reads 1.
LoadIdle == [fn |-> "none", df |-> NoTable, now |-> 1, created |-> FALSE, raised |-> NoError]

Init ==
    /\ InitTransform
    /\ ident = IdentIdle
    /\ pg = PgEmpty
    /\ es = EsEmpty
    /\ pl = PipelineIdle
    /\ ld = LoadIdle

\* What the actions on the data directory leave alone.
otherState == <<ident, pg, es, pl, ld>>

runState == <<outputFile, pc, trace, cmed_path, df_anvisa, df_cmed, df_anvisa_clean,
              df_cmed_clean, df_unified, df_final, returned, raised>>

\* The extraction stage saves the registry file (header only so far).
CreateAnvisaFile(h) ==
    /\ pc = "idle"
    /\ ~exists(dataDir, ANVISA_FILENAME)
    /\ dataDir' = dataDir @@ (ANVISA_FILENAME :> File(1, h, <<>>))
    /\ UNCHANGED <<runState, otherState>>

\* ... and one more row of it.
AppendAnvisaRow(id, txt) ==
    /\ pc = "idle"
    /\ exists(dataDir, ANVISA_FILENAME)
    /\ Len(dataDir[ANVISA_FILENAME].rows) < MaxRows
    /\ dataDir' = [dataDir EXCEPT ![ANVISA_FILENAME].rows =
                       Append(@, AnvisaRow(dataDir[ANVISA_FILENAME].cols, id, txt))]
    /\ UNCHANGED <<runState, otherState>>

\* The extraction stage saves the price spreadsheet; it keeps one version.
CreateCmedFile(n, h) ==
    /\ pc = "idle"
    /\ \A m \in PriceFileNames : ~exists(dataDir, m)
    /\ dataDir' = dataDir @@ (n :> File(1, h, <<>>))
    /\ UNCHANGED <<runState, otherState>>

AppendCmedRow(n, id, txt) ==
    /\ pc = "idle"
    /\ exists(dataDir, n)
    /\ Len(dataDir[n].rows) < MaxRows
    /\ dataDir' = [dataDir EXCEPT ![n].rows = Append(@, CmedRow(dataDir[n].cols, id, txt))]
    /\ UNCHANGED <<runState, otherState>>

\* transform.run(), from its first line to its return or raise.
Run ==
    /\ pc = "idle"
    /\ \E files \in Listings(glob(dataDir, xls_pattern)) :
       \E pick \in {"NUMERO_REGISTRO_PRODUTO", "REGISTRO_BASE"} :
       \E r \in {run(dataDir, files, pick)} :
          /\ pc' = "done"
          /\ trace' = r.trace
          /\ cmed_path' = r.cmed_path
          /\ df_anvisa' = r.df_anvisa
          /\ df_cmed' = r.df_cmed
          /\ df_anvisa_clean' = r.df_anvisa_clean
          /\ df_cmed_clean' = r.df_cmed_clean
          /\ df_unified' = r.df_unified
          /\ df_final' = r.df_final
          /\ outputFile' = IF r.written THEN r.df_final ELSE outputFile
          /\ returned' = r.returned
          /\ raised' = r.raised
    /\ UNCHANGED <<dataDir, otherState>>

Next ==
    \/ \E h \in AnvisaHeaders : CreateAnvisaFile(h)
    \/ \E id \in AnvisaIds, txt \in AnvisaTexts : AppendAnvisaRow(id, txt)
    \/ \E n \in PriceFileNames, h \in CmedHeaders : CreateCmedFile(n, h)
    \/ \E n \in PriceFileNames, id \in CmedIds, txt \in CmedTexts : AppendCmedRow(n, id, txt)
    \/ Run

Spec == Init /\ [][Next]_vars

(***************************************************************************)
(* find_latest_cmed_file on its own, over directories holding several      *)
(* files with different names and modification times.                      *)
(***************************************************************************)
\* A file of the directory is written (created, or its mtime renewed).
Touch(n, t) ==
    /\ pc = "idle"
    /\ dataDir' = [m \in DOMAIN dataDir \cup {n} |->
                      IF m = n THEN File(t, <<>>, <<>>) ELSE dataDir[m]]
    /\ UNCHANGED <<runState, otherState>>

Remove(n) ==
    /\ pc = "idle"
    /\ exists(dataDir, n)
    /\ dataDir' = [m \in DOMAIN dataDir \ {n} |-> dataDir[m]]
    /\ UNCHANGED <<runState, otherState>>

\* A call of find_latest_cmed_file().
Locate ==
    /\ pc = "idle"
    /\ \E files \in Listings(glob(dataDir, xls_pattern)) :
          cmed_path' = find_latest_cmed_file(dataDir, files)
    /\ pc' = "located"
    /\ trace' = <<"find_latest_cmed_file", "return">>
    /\ UNCHANGED <<dataDir, outputFile, df_anvisa, df_cmed, df_anvisa_clean,
                   df_cmed_clean, df_unified, df_final, returned, raised, otherState>>

NextLocate ==
    \/ \E n \in LocateNames, t \in 1..MaxTime : Touch(n, t)
    \/ \E n \in LocateNames : Remove(n)
    \/ Locate

SpecLocate == Init /\ [][NextLocate]_vars


(***************************************************************************)
(* Properties of transform.run and merge_datasets.                         *)
(***************************************************************************)
RunOk == pc = "done" /\ raised = NoError

RegistryKey(row) == row["NUMERO_REGISTRO_PRODUTO"]

PriceKey(row) == row["REGISTRO_BASE"]

\* The cells of `row` under the labels of `cols`.
Part(row, cols) == [c \in Range(cols) |-> row[c]]

\* Output row `row` is registry row l joined to price row r.
IsJoinOf(row, l, r) ==
    /\ Part(row, df_anvisa_clean.cols) = l
    /\ Part(row, df_cmed_clean.cols) = r

PriceMatches(l) ==
    {j \in DOMAIN df_cmed_clean.rows : PriceKey(df_cmed_clean.rows[j]) = RegistryKey(l)}

\* C1: inner-join semantics.  Every row of the table merge_datasets returns
\* carries a join key that occurs in the cleaned registry table and in the
\* cleaned price table, with the price cells of a price row of that key; a
\* registry row whose key matches no price row contributes no output row.
C1_InnerJoin ==
    RunOk =>
      /\ \A k \in DOMAIN df_unified.rows :
           LET row == df_unified.rows[k]
           IN  /\ \E i \in DOMAIN df_anvisa_clean.rows :
                     RegistryKey(df_anvisa_clean.rows[i]) = RegistryKey(row)
               /\ \E j \in DOMAIN df_cmed_clean.rows :
                     /\ PriceKey(df_cmed_clean.rows[j]) = RegistryKey(row)
                     /\ Part(row, df_cmed_clean.cols) = df_cmed_clean.rows[j]
      /\ \A i \in DOMAIN df_anvisa_clean.rows :
           PriceMatches(df_anvisa_clean.rows[i]) = {} =>
             \A k \in DOMAIN df_unified.rows :
                Part(df_unified.rows[k], df_anvisa_clean.cols) # df_anvisa_clean.rows[i]

\* A run that joined some registry row and dropped another for lack of a price row.
C1_Witness ==
    /\ RunOk
    /\ Len(df_unified.rows) >= 1
    /\ \E i \in DOMAIN df_anvisa_clean.rows : PriceMatches(df_anvisa_clean.rows[i]) = {}

FirstPriceRowOf(key) ==
    df_cmed_clean.rows[CHOOSE j \in DOMAIN df_cmed_clean.rows :
                           /\ PriceKey(df_cmed_clean.rows[j]) = key
                           /\ \A m \in 1..(j - 1) : PriceKey(df_cmed_clean.rows[m]) # key]

RECURSIVE SumOver(_, _)
SumOver(f, S) ==
    IF S = {} THEN 0
    ELSE LET x == CHOOSE y \in S : TRUE IN f[x] + SumOver(f, S \ {x})

MatchedPairs ==
    SumOver([i \in DOMAIN df_anvisa_clean.rows |->
                Cardinality(PriceMatches(df_anvisa_clean.rows[i]))],
            DOMAIN df_anvisa_clean.rows)

PriceKeysDistinct ==
    \A j1, j2 \in DOMAIN df_cmed_clean.rows :
       j1 # j2 => PriceKey(df_cmed_clean.rows[j1]) # PriceKey(df_cmed_clean.rows[j2])

PriceFileLocated == glob(dataDir, xls_pattern) # {}

C5_JoinKeyLength ==
    RunOk =>
      \A k \in DOMAIN df_unified.rows :
         /\ Len(RegistryKey(df_unified.rows[k])) = PREFIX_LEN
         /\ Range(RegistryKey(df_unified.rows[k])) \subseteq Digits


BothSourcesRead == pc = "done" /\ df_anvisa # NoTable /\ df_cmed # NoTable

\* C6: schema resolution failure.  When the header of a source lacks its
\* registration-number column, the run fails with an error that names every
\* missing field (for the price source under its source label REGISTRO or
\* its canonical label REGISTRO_CMED).
C6_MissingFieldsNamed ==
    BothSourcesRead =>
      /\ "NUMERO_REGISTRO_PRODUTO" \notin Range(df_anvisa.cols) =>
            /\ raised # NoError
            /\ "NUMERO_REGISTRO_PRODUTO" \in Range(raised.args)
      /\ "REGISTRO" \notin Range(df_cmed.cols) =>
            /\ raised # NoError
            /\ {"REGISTRO", "REGISTRO_CMED"} \cap Range(raised.args) # {}

RunSteps ==
    {"read_csv", "read_excel", "clean_anvisa_data", "clean_cmed_data",
     "merge_datasets", "to_csv", "return"}

\* C7: a missing registry file is fatal.  If the registry file is absent the
\* run raises FileNotFoundError before any table is read, cleaned or joined,
\* and no unified output is written or returned.
C7_RegistryMissingIsFatal ==
    (pc = "done" /\ ~exists(dataDir, ANVISA_FILENAME)) =>
      /\ raised = FileNotFoundError
      /\ Range(trace) \cap RunSteps = {}
      /\ df_anvisa = NoTable /\ df_cmed = NoTable
      /\ df_anvisa_clean = NoTable /\ df_cmed_clean = NoTable
      /\ df_unified = NoTable /\ df_final = NoTable
      /\ outputFile = NoTable
      /\ returned = NoTable

\* A run over a directory holding a price file with rows and no registry file.
C7_Witness ==
    /\ pc = "done"
    /\ ~exists(dataDir, ANVISA_FILENAME)
    /\ cmed_path # NoPath
    /\ Len(dataDir[cmed_path].rows) >= 1

\* A name the pattern '*.xls*' selects: it holds ".xls" and is not hidden.
IsSpreadsheetName(n) ==
    /\ n[1] # "."
    /\ \E i \in 1..(Len(n) - 3) : SubSeq(n, i, i + 3) = <<".", "x", "l", "s">>

SpreadsheetNames == {n \in DOMAIN dataDir : IsSpreadsheetName(n)}

\* C8: price source location.  find_latest_cmed_file returns None when no
\* file of the directory is a spreadsheet name, and otherwise a spreadsheet
\* name whose modification time no other spreadsheet name exceeds.
C8_LatestPriceFile ==
    pc = "located" =>
      /\ SpreadsheetNames = {} => cmed_path = NoPath
      /\ SpreadsheetNames # {} =>
            /\ cmed_path \in SpreadsheetNames
            /\ \A n \in SpreadsheetNames : dataDir[n].mtime <= dataDir[cmed_path].mtime

\* A lookup over two spreadsheets of different age and a newer file that is none.
C8_Witness ==
    /\ pc = "located"
    /\ \E n, m \in SpreadsheetNames : dataDir[n].mtime < dataDir[m].mtime
    /\ \E o \in DOMAIN dataDir \ SpreadsheetNames :
          \A n \in SpreadsheetNames : dataDir[n].mtime < dataDir[o].mtime

RECURSIVE InRegistryOrder(_, _, _)
\* The registry parts of out are rows of reg, at positions that never decrease
\* (from position `from` on).
InRegistryOrder(out, reg, from) ==
    IF out = <<>> THEN TRUE
    ELSE LET here == {i \in from..Len(reg) : reg[i] = Part(Head(out), df_anvisa_clean.cols)}
         IN  /\ here # {}
             /\ InRegistryOrder(Tail(out), reg,
                                CHOOSE i \in here : \A m \in here : i <= m)

\* C9: result ordering.  The rows of the unified output appear in the
\* relative order of the registry rows they come from.
C9_RegistryOrder == RunOk => InRegistryOrder(df_unified.rows, df_anvisa_clean.rows, 1)

\* A run joining two registry rows of different keys with price rows that
\* appear in the opposite order in the price table.
C9_Witness ==
    /\ RunOk
    /\ Len(df_unified.rows) = 2
    /\ Len(df_cmed_clean.rows) = 2
    /\ RegistryKey(df_unified.rows[1]) # RegistryKey(df_unified.rows[2])
    /\ PriceKey(df_cmed_clean.rows[1]) = RegistryKey(df_unified.rows[2])

PositionIn(seq, x) == CHOOSE i \in DOMAIN seq : seq[i] = x

\* C10: output assembly.  The final table has exactly the declared final
\* columns that exist in the joined table, in declared order and each once;
\* REGISTRO_BASE is not among them; its rows are the joined rows cut to these
\* columns, and it is the table written to the output file and returned.
C10_OutputColumns ==
    RunOk =>
      /\ Range(df_final.cols) = Range(final_columns) \cap Range(df_unified.cols)
      /\ \A a, b \in DOMAIN df_final.cols :
            a < b => PositionIn(final_columns, df_final.cols[a])
                       < PositionIn(final_columns, df_final.cols[b])
      /\ "REGISTRO_BASE" \notin Range(df_final.cols)
      /\ Len(df_final.rows) = Len(df_unified.rows)
      /\ \A k \in DOMAIN df_final.rows :
            /\ DOMAIN df_final.rows[k] = Range(df_final.cols)
            /\ \A c \in Range(df_final.cols) : df_final.rows[k][c] = df_unified.rows[k][c]
      /\ outputFile = df_final
      /\ returned = df_final

\* A run whose joined table has rows, holds REGISTRO_BASE and lacks the
\* declared columns CLASSE_TERAPEUTICA and PRINCIPIO_ATIVO.
C10_Witness ==
    /\ RunOk
    /\ Len(df_unified.rows) >= 1
    /\ "REGISTRO_BASE" \in Range(df_unified.cols)
    /\ "CLASSE_TERAPEUTICA" \notin Range(df_unified.cols)
    /\ "PRINCIPIO_ATIVO" \notin Range(df_unified.cols)
    /\ Len(df_final.cols) >= 2

(***************************************************************************)
(* Properties of the join key.                                             *)
(***************************************************************************)
RECURSIVE FirstDigits(_, _)
\* The first n digit characters of a raw cell, read left to right.
FirstDigits(s, n) ==
    IF n = 0 \/ s = <<>> THEN <<>>
    ELSE IF Head(s) \in Digits THEN <<Head(s)>> \o FirstDigits(Tail(s), n - 1)
         ELSE FirstDigits(Tail(s), n)

RawRegistryId(i) == df_anvisa.rows[i]["NUMERO_REGISTRO_PRODUTO"]

RawPriceId(j) == df_cmed.rows[j]["REGISTRO"]

JoinedInOutput(i, j) ==
    \E k \in DOMAIN df_unified.rows :
       IsJoinOf(df_unified.rows[k], df_anvisa_clean.rows[i], df_cmed_clean.rows[j])

\* C11: derived-prefix join.  After a run that returned, registry row i and
\* price row j of the files read are joined into an output row exactly when
\* the first 9 digits of their raw identifiers, non-digits removed, are
\* equal; so "123456789-0" and "1234567890001" meet under key "123456789".
C11_PrefixJoin ==
    RunOk =>
      /\ Len(df_anvisa_clean.rows) = Len(df_anvisa.rows)
      /\ Len(df_cmed_clean.rows) = Len(df_cmed.rows)
      /\ \A i \in DOMAIN df_anvisa.rows : \A j \in DOMAIN df_cmed.rows :
            (FirstDigits(RawRegistryId(i), 9) = FirstDigits(RawPriceId(j), 9))
              <=> JoinedInOutput(i, j)

\* A run that joined a registry row read as "123456789-0" to a price row read
\* as "1234567890001", the output row carrying key "123456789".
C11_Witness ==
    /\ RunOk
    /\ \E i \in DOMAIN df_anvisa.rows : \E j \in DOMAIN df_cmed.rows :
          /\ RawRegistryId(i) = RegDashed
          /\ RawPriceId(j) = CmedPres1
          /\ \E k \in DOMAIN df_unified.rows :
                /\ IsJoinOf(df_unified.rows[k], df_anvisa_clean.rows[i], df_cmed_clean.rows[j])
                /\ RegistryKey(df_unified.rows[k]) = <<"1","2","3","4","5","6","7","8","9">>
                /\ df_unified.rows[k]["REGISTRO_CMED"] = CmedPres1

(***************************************************************************)
(* The identifier cleaning of lines 35 and 128 on its own: one raw cell is *)
(* cleaned, and the result is cleaned once more.                           *)
(***************************************************************************)
IdChars == {"1", "0", "-", "n", " "}

\* Raw cells: every text of up to MaxIdLen characters, a missing value, and
\* the identifiers of the registry and price files.
RawIdents ==
    UNION {[1..n -> IdChars] : n \in 0..MaxIdLen} \cup {NaN} \cup AnvisaIds \cup CmedIds

InitClean ==
    /\ InitTransform
    /\ pg = PgEmpty
    /\ es = EsEmpty
    /\ pl = PipelineIdle
    /\ ld = LoadIdle
    /\ \E v \in RawIdents : ident = [IdentIdle EXCEPT !.raw = v]

CleanOnce ==
    /\ ident.step = 0
    /\ ident' = [ident EXCEPT !.cleaned = clean_identifier(ident.raw), !.step = 1]
    /\ UNCHANGED <<dataDir, runState, pg, es, pl, ld>>

CleanAgain ==
    /\ ident.step = 1
    /\ ident' = [ident EXCEPT !.again = clean_identifier(ident.cleaned), !.step = 2]
    /\ UNCHANGED <<dataDir, runState, pg, es, pl, ld>>

NextClean ==
    \/ CleanOnce
    \/ CleanAgain

SpecClean == InitClean /\ [][NextClean]_vars

HasDigit(v) == v # NaN /\ \E k \in DOMAIN v : v[k] \in Digits

\* C12: identifier cleaning.  The cleaned identifier is a text made of
\* decimal digits only; a raw value without any digit (a missing value
\* included) cleans to the empty text, no error raised; and cleaning the
\* cleaned identifier gives it back unchanged.
C12_CleanIdentifier ==
    /\ ident.step >= 1 =>
         /\ ident.cleaned # NaN
         /\ ident.cleaned \in Seq(Digits)
         /\ ~HasDigit(ident.raw) => ident.cleaned = <<>>
    /\ ident.step = 2 => ident.again = ident.cleaned

\* The cell "1-0" was cleaned to "10" and cleaned again.
C12_Witness ==
    /\ ident.step = 2
    /\ ident.raw = <<"1", "-", "0">>
    /\ ident.cleaned = <<"1", "0">>

KeyColumnsPresent ==
    /\ "NUMERO_REGISTRO_PRODUTO" \in Range(df_anvisa_clean.cols)
    /\ "REGISTRO_BASE" \in Range(df_cmed_clean.cols)

NoKeyInCommon ==
    \A i \in DOMAIN df_anvisa_clean.rows : \A j \in DOMAIN df_cmed_clean.rows :
       RegistryKey(df_anvisa_clean.rows[i]) # PriceKey(df_cmed_clean.rows[j])

\* C13: an empty result is not an error.  When transform.run has read both
\* files, both hold their key column and no registry join key equals a price
\* join key, the run ends by returning: merge_datasets gave a table without
\* rows, and the output file is written with its columns and no data row and
\* is the table returned.
C13_EmptyResultIsNoError ==
    (pc = "done" /\ BothSourcesRead /\ KeyColumnsPresent /\ NoKeyInCommon) =>
      /\ raised = NoError
      /\ trace[Len(trace)] = "return"
      /\ df_unified # NoTable
      /\ df_unified.rows = <<>>
      /\ outputFile = df_final
      /\ outputFile.rows = <<>>
      /\ returned = df_final

\* A run over a registry file and a price file that both have rows, none of
\* the registry keys being a price key.
C13_Witness ==
    /\ pc = "done"
    /\ BothSourcesRead
    /\ KeyColumnsPresent
    /\ NoKeyInCommon
    /\ Len(df_anvisa_clean.rows) >= 1
    /\ Len(df_cmed_clean.rows) >= 1
    /\ outputFile # NoTable
    /\ Len(outputFile.cols) >= 2

(***************************************************************************)
(* Frame properties of the cleaning and merging functions.                 *)
(***************************************************************************)
\* The content of file n of the data directory, as a table.
FileTable(n) == [cols |-> dataDir[n].cols, rows |-> dataDir[n].rows]

Called(step) == \E k \in DOMAIN trace : trace[k] = step

ConfigNames ==
    {"PROJECT_ROOT", "DATA_DIR", "PROCESSED_DATA_DIR", "ANVISA_FILENAME", "UNIFIED_FILENAME",
     "ANVISA_CSV_URL", "CMED_BASE_URL", "CMED_PRICES_PAGE_URL", "DB_USER", "DB_PASSWORD",
     "DB_NAME", "DB_HOST", "DB_PORT", "DATABASE_URL", "ES_HOST", "ES_PORT", "ES_URL",
     "ES_INDEX_NAME"}

\* The loader is run against config as it stands and against a config to
\* which the deployment has added the missing name.
LoadConfigs == {ConfigNames, ConfigNames \cup {"DB_TABLE_NAME"}}

AttributeError(name) == [type |-> "AttributeError", args |-> <<name>>]

\* sqlalchemy.exc.OperationalError (a SQLAlchemyError): the statement could
\* not be run, the connection being lost or refused.
OperationalError(step) == [type |-> "OperationalError", args |-> <<step>>]

\* sqlalchemy.exc.IntegrityError (a SQLAlchemyError): ADD PRIMARY KEY over
\* rows that repeat a key.
IntegrityError == [type |-> "IntegrityError", args |-> <<"REGISTRO_CMED">>]

\* f"{config.DB_TABLE_NAME}_temp_{int(time.time())}": one name per second.
temp_table_name(now) == now

HasDuplicateKeys(rows) ==
    \E a, b \in DOMAIN rows : a # b /\ rows[a]["REGISTRO_CMED"] = rows[b]["REGISTRO_CMED"]

\* df.to_sql(temp_table_name, engine, if_exists='replace', ...)
to_sql(db, temp) == [db EXCEPT !.temps = @ \cup {temp}]

\* The statements of the 'with engine.begin()' block, in order.
TxStatements == <<"create_main", "drop_pkey", "truncate", "insert", "add_pkey", "drop_temp">>

\* The statement PostgreSQL refuses in state db.
StatementFails(db, stmt) == stmt = "add_pkey" /\ HasDuplicateKeys(db.main.rows)

\* The effect of one statement; `rows` are the rows of the temp table.
Execute(db, stmt, temp, rows) ==
    CASE stmt = "create_main" ->
           IF db.main = NoTable THEN [db EXCEPT !.main = [rows |-> <<>>, pkey |-> FALSE]] ELSE db
      [] stmt = "drop_pkey" -> [db EXCEPT !.main.pkey = FALSE]
      [] stmt = "truncate" -> [db EXCEPT !.main.rows = <<>>]
      [] stmt = "insert" -> [db EXCEPT !.main.rows = @ \o rows]
      [] stmt = "add_pkey" -> [db EXCEPT !.main.pkey = TRUE]
      [] stmt = "drop_temp" -> [db EXCEPT !.temps = @ \ {temp}]

RECURSIVE ExecuteAll(_, _, _, _, _)
\* The statements run one after the other until one raises; `fail` is the
\* statement at which the connection is lost ("none": it is not).
ExecuteAll(db, stmts, temp, rows, fail) ==
    IF stmts = <<>> THEN [db |-> db, error |-> NoError]
    ELSE IF Head(stmts) = fail THEN [db |-> db, error |-> OperationalError(fail)]
    ELSE IF StatementFails(db, Head(stmts)) THEN [db |-> db, error |-> IntegrityError]
    ELSE ExecuteAll(Execute(db, Head(stmts), temp, rows), Tail(stmts), temp, rows, fail)

\* The same statements on an autocommit connection: what ran stays.
engine_connect_autocommit(db, temp, rows, fail) ==
    LET r == ExecuteAll(db, TxStatements, temp, rows, fail)
    IN  IF r.error = NoError /\ fail = "commit"
        THEN [db |-> r.db, error |-> OperationalError("commit")]
        ELSE r

\* with engine.begin() as connection: commit when the block ends, rollback
\* to the state before it when a statement or the commit raises.
engine_begin(db, temp, rows, fail) ==
    LET r == ExecuteAll(db, TxStatements, temp, rows, fail)
    IN  IF r.error # NoError THEN [db |-> db, error |-> r.error]
        ELSE IF fail = "commit" THEN [db |-> db, error |-> OperationalError("commit")]
        ELSE r

PgFailPoints ==
    {"none", "to_sql", "create_main", "drop_pkey", "truncate", "insert", "add_pkey",
     "drop_temp", "commit"}

\* load_to_postgres(df) at time `now` under config `cfg`; `cleanup` tells
\* whether the DROP TABLE IF EXISTS of the except branch can be run.
load_to_postgres(db, df, now, cfg, fail, cleanup) ==
    IF df.rows = <<>> THEN [db |-> db, created |-> FALSE, raised |-> NoError]
    ELSE IF "DB_TABLE_NAME" \notin cfg
    THEN [db |-> db, created |-> FALSE, raised |-> AttributeError("DB_TABLE_NAME")]
    ELSE
    LET temp == temp_table_name(now)
        loaded == IF fail = "to_sql" THEN [db |-> db, error |-> OperationalError("to_sql")]
                  ELSE [db |-> to_sql(db, temp), error |-> NoError]
        swapped == IF loaded.error # NoError THEN loaded
                   ELSE engine_begin(loaded.db, temp, df.rows, fail)
        created == loaded.error = NoError
    IN  IF swapped.error = NoError
        THEN [db |-> swapped.db, created |-> created, raised |-> NoError]
        ELSE IF cleanup = "fails"
        THEN [db |-> swapped.db, created |-> created, raised |-> OperationalError("cleanup")]
        ELSE [db |-> [swapped.db EXCEPT !.temps = @ \ {temp}], created |-> created,
              raised |-> swapped.error]

\* The tables handed to the loaders: up to MaxLoadRows rows, each a
\* presentation key and a product text; keys may repeat.
LoadRows ==
    {[REGISTRO_CMED |-> "k1", PRODUTO |-> "p1"],
     [REGISTRO_CMED |-> "k1", PRODUTO |-> "p2"],
     [REGISTRO_CMED |-> "k2", PRODUTO |-> "p2"]}

LoadFrames ==
    {Table(<<"REGISTRO_CMED", "PRODUTO">>, rows) :
        rows \in UNION {[1..n -> LoadRows] : n \in 0..MaxLoadRows}}

\* int(time.time()) of a call: the second of the previous call or a later one.
Clock == {t \in {ld.now, ld.now + 1} : t <= MaxClock}

\* A call of load_to_postgres, from its first line to its return or raise.
LoadToPostgres ==
    /\ \E df \in LoadFrames, now \in Clock, cfg \in LoadConfigs :
       \E fail \in IF "DB_TABLE_NAME" \in cfg THEN PgFailPoints ELSE {"none"} :
       \E cleanup \in IF "DB_TABLE_NAME" \in cfg THEN {"ok", "fails"} ELSE {"ok"} :
       \E r \in {load_to_postgres(pg, df, now, cfg, fail, cleanup)} :
          /\ pg' = r.db
          /\ ld' = [fn |-> "load_to_postgres", df |-> df, now |-> now,
                    created |-> r.created, raised |-> r.raised]
    /\ UNCHANGED <<dataDir, runState, ident, es, pl>>

NextPostgres == LoadToPostgres

SpecPostgres == Init /\ [][NextPostgres]_vars

\* C15: atomic table swap.  Whenever load_to_postgres ends for a table that
\* has rows, by returning or by raising at whatever step, the main table
\* either holds exactly the rows of that table or is as it was before the
\* call (absent if it was absent); if the call returned it holds the new rows.
C15_AtomicSwap ==
    [][(ld'.fn = "load_to_postgres" /\ ld'.df.rows # <<>>) =>
          /\ \/ pg'.main = pg.main
             \/ pg'.main # NoTable /\ pg'.main.rows = ld'.df.rows
          /\ ld'.raised = NoError => (pg'.main # NoTable /\ pg'.main.rows = ld'.df.rows)]_vars

\* A load whose table repeats a key was refused by ADD PRIMARY KEY while the
\* main table held the rows of an earlier load, and the main table holds them still.
C15_Witness ==
    /\ ld.fn = "load_to_postgres"
    /\ ld.raised = IntegrityError
    /\ HasDuplicateKeys(ld.df.rows)
    /\ pg.main # NoTable
    /\ pg.main.pkey
    /\ Len(pg.main.rows) >= 1
    /\ pg.main.rows # ld.df.rows

(***************************************************************************)
(* load.load_to_elasticsearch.  The cluster is a record: the indices, by   *)
(* name, each with the rows it was created for and whether all of them are *)
(* indexed, and the set of indices the public alias points to.  Deleting   *)
(* an index removes the alias from it.                                     *)
(***************************************************************************)
\* elastic_transport.TransportError / ConnectionError: the request failed.
TransportError(step) == [type |-> "TransportError", args |-> <<step>>]

\* elasticsearch.BadRequestError: resource_already_exists_exception.
BadRequestError(index) == [type |-> "BadRequestError", args |-> <<index>>]

\* elasticsearch.helpers.BulkIndexError: documents were rejected.
BulkIndexError == [type |-> "BulkIndexError", args |-> <<"bulk">>]

\* f"{config.ES_INDEX_NAME}-{int(time.time())}": one name per second.
new_index_name(now) == now

\* es.indices.create(index=name, ...)
indices_create(e, name, rows) ==
    [e EXCEPT !.indices = @ @@ (name :> [rows |-> rows, complete |-> FALSE])]

\* helpers.bulk(es, actions) that indexed every document.
bulk(e, name) == [e EXCEPT !.indices[name].complete = TRUE]

\* es.indices.update_aliases: add the new index, remove the old ones, at once.
update_aliases(e, name, old_indices) ==
    [e EXCEPT !.alias = (@ \ old_indices) \cup {name}]

\* es.indices.delete(index=names): the indices go, and the alias with them.
indices_delete(e, names) ==
    [indices |-> [n \in DOMAIN e.indices \ names |-> e.indices[n]],
     alias |-> e.alias \ names]

EsFailPoints ==
    {"none", "create", "bulk", "bulk_docs", "get_alias", "update_aliases", "delete_old"}

\* The try block of lines 219-267: the cluster it leaves and the exception
\* that ends it (NoError if it ran to its end).
es_try(e, df, name, fail) ==
    IF fail = "create" THEN [es |-> e, created |-> FALSE, error |-> TransportError("create")]
    ELSE IF name \in DOMAIN e.indices
    THEN [es |-> e, created |-> FALSE, error |-> BadRequestError(name)]
    ELSE
    LET e1 == indices_create(e, name, df.rows)
        e2 == bulk(e1, name)
        old_indices == e2.alias
        e3 == update_aliases(e2, name, old_indices)
        e4 == indices_delete(e3, old_indices)
    IN  CASE fail = "bulk" -> [es |-> e1, created |-> TRUE, error |-> TransportError("bulk")]
          [] fail = "bulk_docs" -> [es |-> e1, created |-> TRUE, error |-> BulkIndexError]
          [] fail = "get_alias" ->
               [es |-> e2, created |-> TRUE, error |-> TransportError("get_alias")]
          [] fail = "update_aliases" ->
               [es |-> e2, created |-> TRUE, error |-> TransportError("update_aliases")]
          [] fail = "delete_old" /\ old_indices # {} ->
               [es |-> e3, created |-> TRUE, error |-> TransportError("delete_old")]
          [] OTHER -> [es |-> e4, created |-> TRUE, error |-> NoError]

\* Both except branches (lines 269-280):
\* es.indices.delete(index=new_index_name, ignore_unavailable=True)
es_except(e, name) == indices_delete(e, {name})

\* load_to_elasticsearch(df) at time `now`; `cleanup` tells whether the
\* delete request of the except branch can be run.
load_to_elasticsearch(e, df, now, fail, cleanup) ==
    IF df.rows = <<>> THEN [es |-> e, created |-> FALSE, raised |-> NoError]
    ELSE
    LET name == new_index_name(now)
        r == es_try(e, df, name, fail)
    IN  IF r.error = NoError THEN [es |-> r.es, created |-> r.created, raised |-> NoError]
        ELSE IF cleanup = "fails"
        THEN [es |-> r.es, created |-> r.created, raised |-> TransportError("cleanup")]
        ELSE [es |-> es_except(r.es, name), created |-> r.created, raised |-> r.error]

\* A call of load_to_elasticsearch, from its first line to its return or raise.
LoadToElasticsearch ==
    /\ \E df \in LoadFrames, now \in Clock :
       \E fail \in EsFailPoints, cleanup \in {"ok", "fails"} :
       \E r \in {load_to_elasticsearch(es, df, now, fail, cleanup)} :
          /\ es' = r.es
          /\ ld' = [fn |-> "load_to_elasticsearch", df |-> df, now |-> now,
                    created |-> r.created, raised |-> r.raised]
    /\ UNCHANGED <<dataDir, runState, ident, pg, pl>>

NextElasticsearch == LoadToElasticsearch

SpecElasticsearch == Init /\ [][NextElasticsearch]_vars

\* The alias points to exactly one index, which exists and is completely indexed.
AliasLive(e) ==
    \E n \in DOMAIN e.indices : e.alias = {n} /\ e.indices[n].complete

\* C16: alias swap without downtime.  A call of load_to_elasticsearch that
\* returns for a table with rows leaves the alias on exactly one existing,
\* completely indexed index; and a call that finds the alias so leaves it
\* so, whether it returns or raises, at whatever step it fails.
C16_AliasStaysLive ==
    [][(ld'.fn = "load_to_elasticsearch" /\ ld'.df.rows # <<>>) =>
          /\ ld'.raised = NoError => AliasLive(es')
          /\ AliasLive(es) => AliasLive(es')]_vars

\* C17: no leftovers on failure.  When a loader call has raised after it
\* created its temp table (load_to_postgres) or its new index
\* (load_to_elasticsearch), that temp table or index does not exist any more.
C17_NoLeftovers ==
    (ld.raised # NoError /\ ld.created) =>
      /\ ld.fn = "load_to_postgres" => temp_table_name(ld.now) \notin pg.temps
      /\ ld.fn = "load_to_elasticsearch" => new_index_name(ld.now) \notin DOMAIN es.indices

(***************************************************************************)
(* extract.run and main.main.  A URL is the sequence of its path           *)
(* components.  The content the servers publish under a name is fixed; a   *)
(* download writes it chunk by chunk (the header, then one chunk per row)  *)
(* straight to the destination path.                                       *)
(***************************************************************************)
RuntimeError(msg) == [type |-> "RuntimeError", args |-> <<msg>>]

old_prefix ==
    <<"x","l","s","_","c","o","n","f","o","r","m","i","d","a","d","e","_","s","i","t","e","_">>

StartsWith(s, pre) == Len(s) >= Len(pre) /\ SubSeq(s, 1, Len(pre)) = pre

EndsWith(s, suf) == Len(s) >= Len(suf) /\ SubSeq(s, Len(s) - Len(suf) + 1, Len(s)) = suf

\* str.endswith(('.xls', '.xlsx'))
EndsWithXls(s) == EndsWith(s, <<".","x","l","s">>) \/ EndsWith(s, <<".","x","l","s","x">>)

\* The two versions of the price spreadsheet the site publishes.
CmedVersion1 == old_prefix \o <<"1",".","x","l","s">>

CmedVersion2 == old_prefix \o <<"2",".","x","l","s","x">>

\* What find_cmed_xls_url returns: None, or the link found on the page.
NoUrl == <<>>

CmedUrls ==
    {NoUrl, <<<<"a","r","q">>, CmedVersion1>>, <<<<"a","r","q">>, CmedVersion2>>,
     <<<<"a","r","q">>, <<"p","m","c">>>>}

\* The registry file on the server, and the price spreadsheet of each name.
AnvisaRemote ==
    LET h == <<"NUMERO_REGISTRO_PRODUTO", "EMPRESA_DETENTORA_REGISTRO", "PRINCIPIO_ATIVO">>
    IN  Table(h, <<AnvisaRow(h, RegDashed, <<"A">>)>>)

CmedRemote(name) ==
    LET h == <<"PRODUTO", "REGISTRO", "EAN 1">>
    IN  Table(h, <<CmedRow(h, IF name = CmedVersion1 THEN CmedPres1 ELSE CmedPres2,
                           <<"Y"," ">>)>>)

\* The file left by a download cut after `chunks` chunks were written.
TruncatedFile(t, content, chunks) ==
    [mtime |-> t,
     cols |-> IF chunks = 0 THEN <<>> ELSE content.cols,
     rows |-> IF chunks = 0 THEN <<>> ELSE SubSeq(content.rows, 1, chunks - 1),
     truncated |-> TRUE]

\* How a download ends: "ok", "refused" (the request fails before the
\* destination is opened), or "cut" with the number of chunks written when
\* the stream broke.
DownloadOutcomes(content) ==
    {<<"ok", 0>>, <<"refused", 0>>} \cup {<<"cut", k>> : k \in 0..Len(content.rows)}

\* download_file(url, destination_path): True, or False after a
\* RequestException; open(destination_path, 'wb') truncates what was there.
download_file(dir, destination_path, content, outcome, now) ==
    LET written(f) == [n \in DOMAIN dir \cup {destination_path} |->
                          IF n = destination_path THEN f ELSE dir[n]]
    IN  CASE outcome[1] = "ok" ->
               [dir |-> written(File(now, content.cols, content.rows)), ok |-> TRUE]
          [] outcome[1] = "refused" -> [dir |-> dir, ok |-> FALSE]
          [] OTHER -> [dir |-> written(TruncatedFile(now, content, outcome[2])), ok |-> FALSE]

\* Line 87: the first path component that ends in .xls or .xlsx, or None.
cmed_filename_of(url) ==
    LET parts == {k \in DOMAIN url : EndsWithXls(url[k])}
    IN  IF parts = {} THEN NoPath ELSE url[CHOOSE k \in parts : \A m \in parts : k <= m]

\* Lines 103-110: every old version is removed, unless os.remove raises
\* OSError, which is logged and passed over.
remove_old_versions(dir, remove_ok) ==
    IF remove_ok
    THEN [n \in {m \in DOMAIN dir : ~(StartsWith(m, old_prefix) /\ EndsWithXls(m))} |-> dir[n]]
    ELSE dir

\* Lines 99-116: old versions removed, then the new one downloaded.
extract_steps_new_version(dir, cmed_filename, outcome, remove_ok, now) ==
    download_file(remove_old_versions(dir, remove_ok), cmed_filename,
                  CmedRemote(cmed_filename), outcome, now)

ExtractResult(dir, steps, name, skipped, err) ==
    [dir |-> dir, steps |-> steps, cmed_filename |-> name, skipped |-> skipped, raised |-> err]

\* extract.run() at time `now`: `anvisa` and `cmed` are the outcomes of the
\* two downloads, `cmed_url` what find_cmed_xls_url returns.
extract_run(dir, now, anvisa, cmed_url, cmed, remove_ok) ==
    LET a == download_file(dir, ANVISA_FILENAME, AnvisaRemote, anvisa, now)
        cmed_filename == cmed_filename_of(cmed_url)
    IN  IF ~a.ok
        THEN ExtractResult(a.dir, <<"download_anvisa", "raise">>, NoPath, FALSE,
                           RuntimeError("anvisa"))
        ELSE IF cmed_url = NoUrl
        THEN ExtractResult(a.dir, <<"download_anvisa", "find_cmed_xls_url", "raise">>,
                           NoPath, FALSE, RuntimeError("url"))
        ELSE IF cmed_filename = NoPath
        THEN ExtractResult(a.dir, <<"download_anvisa", "find_cmed_xls_url", "raise">>,
                           NoPath, FALSE, RuntimeError("filename"))
        ELSE IF exists(a.dir, cmed_filename)
        THEN ExtractResult(a.dir, <<"download_anvisa", "find_cmed_xls_url", "skip", "return">>,
                           cmed_filename, TRUE, NoError)
        ELSE
        LET c == extract_steps_new_version(a.dir, cmed_filename, cmed, remove_ok, now)
        IN  IF ~c.ok
            THEN ExtractResult(c.dir, <<"download_anvisa", "find_cmed_xls_url", "remove_old",
                                        "download_cmed", "raise">>,
                               cmed_filename, FALSE, RuntimeError("cmed"))
            ELSE ExtractResult(c.dir, <<"download_anvisa", "find_cmed_xls_url", "remove_old",
                                        "download_cmed", "return">>,
                               cmed_filename, FALSE, NoError)

\* A main() that goes on to the transformation whatever the extraction did.
proceeds_always(err) == TRUE

\* main(), lines 18-27: transform.run() is the statement after extract.run()
\* in one try block, so it is reached only if extract.run() returned.
proceeds(err) == err = NoError

\* A run of main(), from its first line to its last; it swallows every exception.
Main ==
    /\ pl.clock < MaxTime
    /\ \E anvisa \in DownloadOutcomes(AnvisaRemote), cmed_url \in CmedUrls, remove_ok \in BOOLEAN :
       \E cmed \in DownloadOutcomes(CmedRemote(cmed_filename_of(cmed_url))) :
       \E e \in {extract_run(dataDir, pl.clock + 1, anvisa, cmed_url, cmed, remove_ok)} :
          /\ dataDir' = e.dir
          /\ IF proceeds(e.raised)
             THEN \E files \in Listings(glob(e.dir, xls_pattern)) :
                  \E pick \in {"NUMERO_REGISTRO_PRODUTO", "REGISTRO_BASE"} :
                  \E r \in {run(e.dir, files, pick)} :
                     /\ pc' = "done"
                     /\ trace' = r.trace
                     /\ cmed_path' = r.cmed_path
                     /\ df_anvisa' = r.df_anvisa
                     /\ df_cmed' = r.df_cmed
                     /\ df_anvisa_clean' = r.df_anvisa_clean
                     /\ df_cmed_clean' = r.df_cmed_clean
                     /\ df_unified' = r.df_unified
                     /\ df_final' = r.df_final
                     /\ outputFile' = IF r.written THEN r.df_final ELSE outputFile
                     /\ returned' = r.returned
                     /\ raised' = r.raised
                     /\ pl' = [clock |-> pl.clock + 1,
                               stages |-> <<"extract.run">> \o e.steps
                                            \o <<"transform.run">> \o r.trace,
                               extract_raised |-> e.raised,
                               cmed_filename |-> e.cmed_filename,
                               skipped |-> e.skipped]
             ELSE /\ pl' = [clock |-> pl.clock + 1,
                            stages |-> <<"extract.run">> \o e.steps,
                            extract_raised |-> e.raised,
                            cmed_filename |-> e.cmed_filename,
                            skipped |-> e.skipped]
                  /\ UNCHANGED runState
    /\ UNCHANGED <<ident, pg, es, ld>>

NextPipeline == Main

SpecPipeline == Init /\ [][NextPipeline]_vars

\* transform.run appears in the stages only right after extract.run returned.
StagesOrdered(p) ==
    \A k \in DOMAIN p.stages :
       p.stages[k] = "transform.run" =>
         /\ k > 1
         /\ p.stages[k - 1] = "return"
         /\ p.extract_raised = NoError

\* C18: stage ordering.  In every run of main(), transform.run starts only
\* after extract.run has returned without raising; when extract.run raises
\* (registry download failed, price URL or file name not found, price
\* download failed) transform.run is not invoked in that run and the unified
\* output file and the state of transform.run stay as they were.
C18_StageOrdering ==
    [][pl'.clock # pl.clock =>
          /\ StagesOrdered(pl')
          /\ pl'.extract_raised # NoError =>
                /\ \A k \in DOMAIN pl'.stages : pl'.stages[k] # "transform.run"
                /\ outputFile' = outputFile
                /\ runState' = runState]_vars

\* A run of main() whose extraction raised because the price download
\* failed, after an earlier run had written the unified output.
C18_Witness ==
    /\ pl.extract_raised = RuntimeError("cmed")
    /\ pl.clock >= 2
    /\ outputFile # NoTable
    /\ pl.stages[Len(pl.stages)] = "raise"

\* The file of that name in the directory is the whole published file.
IsCompleteDownload(dir, name) ==
    /\ name \in DOMAIN dir
    /\ "truncated" \notin DOMAIN dir[name]
    /\ dir[name].cols = CmedRemote(name).cols
    /\ dir[name].rows = CmedRemote(name).rows

\* C19: download completeness across runs.  When extract.run has skipped the
\* price download because the file already exists at the destination, that
\* file is the complete result of an earlier successful download.
C19_SkipOnlyComplete ==
    pl.skipped => IsCompleteDownload(dataDir, pl.cmed_filename)

\* C20: the old price file survives a failed refresh.  In a run of main()
\* whose extraction raised because the price download failed, every
\* spreadsheet that was in the data directory before the run is still there,
\* unchanged, after it.
C20_OldPriceFileSurvives ==
    [][(pl'.clock # pl.clock /\ pl'.extract_raised = RuntimeError("cmed")) =>
          \A n \in DOMAIN dataDir :
             EndsWithXls(n) => (n \in DOMAIN dataDir' /\ dataDir'[n] = dataDir[n])]_vars

(***************************************************************************)
(* load.run: load_to_postgres, then load_to_elasticsearch, on one table.   *)
(***************************************************************************)
\* The tables handed to load.run: no row or one row.
RunFrames == {df \in LoadFrames : Len(df.rows) <= 1}

\* int(time.time()) in load_to_elasticsearch, read after load_to_postgres
\* returned: the same second or a later one.
LaterClock(now) == {t \in {now, now + 1} : t <= MaxClock}

\* A call of load.run(df), from its first line to its return or raise:
\* line 289, then line 290 if line 289 returned; the except branch re-raises.
LoadRun ==
    /\ \E df \in RunFrames, now \in Clock, cfg \in LoadConfigs :
       \E fail \in IF "DB_TABLE_NAME" \in cfg THEN PgFailPoints ELSE {"none"} :
       \E cleanup \in IF fail = "none" THEN {"ok"} ELSE {"ok", "fails"} :
       \E p \in {load_to_postgres(pg, df, now, cfg, fail, cleanup)} :
          /\ pg' = p.db
          /\ IF p.raised # NoError
             THEN /\ es' = es
                  /\ ld' = [fn |-> "run", df |-> df, now |-> now,
                            created |-> p.created, raised |-> p.raised]
             ELSE \E later \in LaterClock(now), es_fail \in EsFailPoints :
                  \E es_cleanup \in IF es_fail = "none" THEN {"ok"} ELSE {"ok", "fails"} :
                  \E e \in {load_to_elasticsearch(es, df, later, es_fail, es_cleanup)} :
                     /\ es' = e.es
                     /\ ld' = [fn |-> "run", df |-> df, now |-> later,
                               created |-> e.created, raised |-> e.raised]
    /\ UNCHANGED <<dataDir, runState, ident, pl>>

NextLoad == LoadRun

SpecLoad == Init /\ [][NextLoad]_vars

\* A dataset version held by a store: whether it holds one, and its rows.
NoVersion == <<FALSE, <<>>>>
Version(rows) == <<TRUE, rows>>

\* The dataset the relational table holds (none while it does not exist).
PgVersion(db) == IF db.main = NoTable THEN NoVersion ELSE Version(db.main.rows)

\* The dataset a search through the public alias sees (none if the alias
\* resolves to no index).
EsVersion(e) ==
    IF \E n \in DOMAIN e.indices : e.alias = {n}
    THEN Version(e.indices[CHOOSE n \in DOMAIN e.indices : e.alias = {n}].rows)
    ELSE NoVersion

====
